---- MODULE Spec2Model ----
(***************************************************************************)
(* Feed creation and refresh of miniflux: Handler.CreateFeed and           *)
(* Handler.RefreshFeed (reader/feed), FeedProcessor.Process                *)
(* (reader/processor), scraper.Fetch (reader/scraper) and the feed         *)
(* storage (storage/feed.go).                                              *)
(*                                                                         *)
(* The HTTP client, the feed parser, the rewrite and sanitizer engines,    *)
(* the icon finder, the entry storage and the locale tables are not part   *)
(* of the sources at hand.  What they return is an input of the handler    *)
(* that calls them; what they compute on content is kept as an             *)
(* uninterpreted term, so that "rewritten, then sanitized" can be told     *)
(* from "sanitized, then rewritten" and from untouched content.            *)
(***************************************************************************)
EXTENDS Integers, Sequences, FiniteSets, TLC

VARIABLES feeds, entries, icons, now, last, errHist, pending, call

vars == <<feeds, entries, icons, now, last, errHist, pending, call>>

---------------------------------------------------------------------------
(* Bounds of the model.                                                    *)

\* Number of feed rows the feeds table may hold.
MaxFeeds == 2
\* Number of handler invocations in a run (each one reads a later clock).
MaxClock == 3
\* Largest number of entries in a parsed feed document.
MaxEntries == 2
\* Number of handlers that may be running at a time.
MaxPending == 2

---------------------------------------------------------------------------
(* The world the handlers run in: users, their categories, languages and   *)
(* time zones (rows of tables the handlers only read), and the documents   *)
(* the network serves.                                                     *)

Users == {1, 2}

\* categories(user_id, id)
Categories == {<<1, 1>>, <<2, 2>>}

CategoryIDs == {1, 2}

\* users.language
UserLanguageOf(userID) == IF userID = 1 THEN "en_US" ELSE "fr_FR"

\* users.timezone, as an offset in clock units
UserTimezoneOf(userID) == IF userID = 1 THEN 0 ELSE 1

URLs == {"u1", "u2"}

\* The URLs a GET of url may end at after redirects: itself, or "u1".
EffectiveURLs(url) == {url, "u1"}

Credentials == {<<"bob", "pw">>}

EntryURLSeq == <<"a", "b", "c">>

Versions == {1, 2}

---------------------------------------------------------------------------
(* Error messages (reader/feed) and their localization.                    *)

errRequestFailed == "Unable to execute request: timeout"
errServerFailure404 == "Unable to fetch feed (Status Code = 404)"
errServerFailure500 == "Unable to fetch feed (Status Code = 500)"
errDuplicate == "This feed already exists"
errNotFound == "Feed not found"
errEncoding == "Unable to normalize encoding"
errCategoryNotFound == "Category not found for this user"
errEmptyFeed == "This feed is empty"
errResourceNotFound == "Resource not found (404), this feed doesn't exists anymore, check the feed URL"

\* The localized error the HTTP client itself may return from Get.
errClient == "This website is unreachable"
\* The localized error the feed parser returns for a malformed document.
errParse == "Unsupported feed format"

\* fmt of errServerFailure with the response's status code.
ServerFailureMessage(status) ==
  IF status = 404 THEN errServerFailure404 ELSE errServerFailure500

\* LocalizedError.Localize: the message in the given language; a message
\* the language has no translation for is returned as it is.
Localize(message, language) ==
  IF language # "fr_FR" THEN message
  ELSE CASE message = errRequestFailed -> "Impossible d'executer cette requete : timeout"
         [] message = errServerFailure404 -> "Impossible de recuperer ce flux (code=404)"
         [] message = errServerFailure500 -> "Impossible de recuperer ce flux (code=500)"
         [] message = errEmptyFeed -> "Cet abonnement est vide"
         [] message = errResourceNotFound -> "Ressource introuvable (404)"
         [] message = errClient -> "Ce site web est injoignable"
         [] message = errParse -> "Format de flux non supporte"
         [] OTHER -> message

---------------------------------------------------------------------------
(* The HTTP response (http/client.Response), as far as the handlers read   *)
(* it.  err is the outcome of clt.Get(): "none", or "localized" when the   *)
(* client returned a *LocalizedError, or "plain" for any other error.      *)

HasServerFailure(response) == response.status >= 400

IsNotFound(response) == response.status = 404

\* Response.IsModified: not modified on a 304, or when a validator of the
\* response is set and equal to the stored one.
IsModified(response, etag, lastModified) ==
  /\ response.status # 304
  /\ ~(response.etag # "" /\ response.etag = etag)
  /\ ~(response.lastModified # "" /\ response.lastModified = lastModified)

---------------------------------------------------------------------------
(* Entry content.  The parser, the scraper's extractors, the rewriter and  *)
(* the sanitizer are kept as terms over their arguments.                   *)

\* The content the parser gives the entry url of a document at version ver.
FeedContent(url, ver) == [op |-> "feed", url |-> url, ver |-> ver]

\* rewrite.Rewriter(entryURL, entryContent, customRewriteRules)
Rewriter(url, content, rules) ==
  [op |-> "rewrite", url |-> url, rules |-> rules, of |-> content]

\* sanitizer.Sanitize(baseURL, input)
Sanitize(url, content) == [op |-> "sanitize", url |-> url, of |-> content]

\* The parsed documents: the first n entries of the feed, n <= MaxEntries,
\* all at one version, with the site URL the document declares.
ParsedEntries(n, ver) ==
  [i \in 1..n |-> [url |-> EntryURLSeq[i], content |-> FeedContent(EntryURLSeq[i], ver)]]

NoDoc == [parseErr |-> FALSE, siteURL |-> "", title |-> "", entries |-> <<>>]

BadDoc == [parseErr |-> TRUE, siteURL |-> "", title |-> "", entries |-> <<>>]

---------------------------------------------------------------------------
(* Storage (storage/feed.go).  The feeds table is a sequence of rows, the  *)
(* id of a row being its index (RETURNING id of a serial column).  A row   *)
(* keeps checked_at as an instant and cookies as an hstore; model.Feed     *)
(* keeps CheckedAt in the user's time zone and Cookies as a map.           *)

NoFeed == [id |-> 0]

\* hstore.Hstore of a cookie map, as UpdateFeed builds it.
ToHstore(cookies) ==
  [k \in DOMAIN cookies |-> [String |-> cookies[k], Valid |-> TRUE]]

\* The cookie map FeedByID builds from the hstore column.
FromHstore(h) ==
  [k \in {x \in DOMAIN h : h[x].Valid} |-> h[k].String]

\* "checked_at at time zone u.timezone": the wall clock of an instant.
AtTimeZone(instant, tz) == instant + tz

\* timezone.Convert of a wall clock without zone: the instant it names.
Convert(tz, wall) == wall - tz

\* FeedURLExists without the user_id condition.
FeedURLExists_AnyUser(fs, userID, feedURL) ==
  Cardinality({i \in DOMAIN fs : fs[i].feedURL = feedURL}) >= 1

\* SELECT count(*) FROM feeds WHERE user_id=$1 AND feed_url=$2; result >= 1
FeedURLExists(fs, userID, feedURL) ==
  Cardinality({i \in DOMAIN fs : fs[i].userID = userID /\ fs[i].feedURL = feedURL}) >= 1

\* SELECT ... FROM feeds f ... WHERE f.user_id=$1 AND f.id=$2
FeedByID(fs, userID, feedID) ==
  IF feedID \in DOMAIN fs /\ fs[feedID].userID = userID
  THEN LET row == fs[feedID]
           tz == UserTimezoneOf(row.userID)
       IN [id |-> feedID,
           feedURL |-> row.feedURL,
           siteURL |-> row.siteURL,
           title |-> row.title,
           etag |-> row.etag,
           lastModified |-> row.lastModified,
           userID |-> row.userID,
           checkedAt |-> Convert(tz, AtTimeZone(row.checkedAt, tz)),
           parsingErrorCount |-> row.parsingErrorCount,
           parsingErrorMsg |-> row.parsingErrorMsg,
           scraperRules |-> row.scraperRules,
           rewriteRules |-> row.rewriteRules,
           cookies |-> FromHstore(row.cookies),
           crawler |-> row.crawler,
           username |-> row.username,
           password |-> row.password,
           categoryID |-> row.categoryID]
  ELSE NoFeed

\* INSERT INTO entries: one row per entry.
createEntry(es, entry) == es \cup {entry}

\* UPDATE entries SET content=... of the row with the entry's key.
updateEntry(es, entry) ==
  {e \in es : ~(e.userID = entry.userID /\ e.feedID = entry.feedID /\ e.url = entry.url)}
    \cup {entry}

\* SELECT count(*) FROM entries WHERE user_id=$1 AND feed_id=$2 AND <key>
entryExists(es, entry) ==
  \E e \in es : e.userID = entry.userID /\ e.feedID = entry.feedID /\ e.url = entry.url

\* SELECT count(*) FROM entries WHERE user_id=$1 AND url=$2
EntryURLExists(es, userID, url) ==
  \E e \in es : e.userID = userID /\ e.url = url

\* The row INSERT INTO feeds creates: the ten columns of the statement,
\* the others at the defaults of the table (no error, no rules, no
\* cookies, checked_at = now()).
NewFeedRow(feed, clock) ==
  [userID |-> feed.userID,
   feedURL |-> feed.feedURL,
   siteURL |-> feed.siteURL,
   title |-> feed.title,
   categoryID |-> feed.categoryID,
   etag |-> feed.etag,
   lastModified |-> feed.lastModified,
   crawler |-> feed.crawler,
   username |-> feed.username,
   password |-> feed.password,
   checkedAt |-> clock,
   parsingErrorCount |-> 0,
   parsingErrorMsg |-> "",
   scraperRules |-> "",
   rewriteRules |-> "",
   cookies |-> << >>]

\* The entries loop of Storage.CreateFeed, from entry i on: createEntry
\* of each entry in turn, stopping at the first that fails (failAt).
RECURSIVE CreateEntries(_, _, _, _, _, _)
CreateEntries(es, ents, i, feedID, userID, failAt) ==
  IF i > Len(ents) THEN [entries |-> es, err |-> FALSE]
  ELSE IF i = failAt THEN [entries |-> es, err |-> TRUE]
  ELSE CreateEntries(
         createEntry(es, [userID |-> userID, feedID |-> feedID,
                          url |-> ents[i].url, content |-> ents[i].content]),
         ents, i + 1, feedID, userID, failAt)

\* Storage.CreateFeed.  failAt is the statement the database fails:
\* 0 for the INSERT of the feed, i for the createEntry of entry i, -1 for
\* none.
StorageCreateFeed(fs, es, feed, ents, clock, failAt) ==
  IF failAt = 0
  THEN [feeds |-> fs, entries |-> es, err |-> TRUE, id |-> 0]
  ELSE LET id == Len(fs) + 1
           ins == CreateEntries(es, ents, 1, id, feed.userID, failAt)
       IN [feeds |-> Append(fs, NewFeedRow(feed, clock)),
           entries |-> ins.entries,
           err |-> ins.err,
           id |-> id]

\* Storage.UpdateFeed: UPDATE feeds SET <15 columns> WHERE id AND user_id.
UpdateFeed(fs, feed) ==
  [i \in DOMAIN fs |->
     IF i = feed.id /\ fs[i].userID = feed.userID
     THEN [userID |-> fs[i].userID,
           feedURL |-> feed.feedURL,
           siteURL |-> feed.siteURL,
           title |-> feed.title,
           categoryID |-> feed.categoryID,
           etag |-> feed.etag,
           lastModified |-> feed.lastModified,
           checkedAt |-> feed.checkedAt,
           parsingErrorMsg |-> feed.parsingErrorMsg,
           parsingErrorCount |-> feed.parsingErrorCount,
           scraperRules |-> feed.scraperRules,
           rewriteRules |-> feed.rewriteRules,
           cookies |-> ToHstore(feed.cookies),
           crawler |-> feed.crawler,
           username |-> feed.username,
           password |-> feed.password]
     ELSE fs[i]]

\* Storage.UpdateEntries(userID, feedID, entries, updateExistingEntries),
\* from entry i on: an entry that exists is updated only when
\* updateExistingEntries, another one is created; the first statement that
\* fails (failAt) ends the merge with an error.
RECURSIVE UpdateEntries(_, _, _, _, _, _, _)
UpdateEntries(es, userID, feedID, ents, i, updateExistingEntries, failAt) ==
  IF i > Len(ents) THEN [entries |-> es, err |-> FALSE]
  ELSE LET entry == [userID |-> userID, feedID |-> feedID,
                     url |-> ents[i].url, content |-> ents[i].content]
           exists == entryExists(es, entry)
           writes == ~exists \/ updateExistingEntries
       IN IF writes /\ i = failAt THEN [entries |-> es, err |-> TRUE]
          ELSE UpdateEntries(
                 IF exists
                 THEN (IF updateExistingEntries THEN updateEntry(es, entry) ELSE es)
                 ELSE createEntry(es, entry),
                 userID, feedID, ents, i + 1, updateExistingEntries, failAt)

\* Storage.ResetFeedErrors: UPDATE feeds SET parsing_error_count=0,
\* parsing_error_msg=''
ResetFeedErrors(fs) ==
  [i \in DOMAIN fs |-> [fs[i] EXCEPT !.parsingErrorCount = 0, !.parsingErrorMsg = ""]]

\* Storage.HasIcon(feedID)
HasIcon(ics, feedID) == feedID \in ics

\* Storage.CreateFeedIcon(feed, icon)
CreateFeedIcon(ics, feedID) == ics \cup {feedID}

---------------------------------------------------------------------------
(* The scraper (reader/scraper): Fetch, scrapContent and                   *)
(* getPredefinedScraperRules.  Hosts and the domains of the predefined     *)
(* table are sequences of characters, so that strings.Contains is a        *)
(* substring test.  A page is a tree of nodes, given as the sequence of    *)
(* its nodes in document order, each with its tag, its class, its text     *)
(* and the place of its parent in the sequence (0: the body); HTML is the  *)
(* sequence of its tokens.                                                 *)

Call(fn, url) == [fn |-> fn, url |-> url]

\* url.Domain of the pages the entries link to.
Domain(url) ==
  CASE url = "a" -> <<"x", "y">>
    [] url = "b" -> <<"y", "z">>
    [] OTHER -> <<"z">>

\* strings.Contains(s, substr)
Contains(s, substr) ==
  \E i \in 1..(Len(s) + 1) :
     /\ i + Len(substr) - 1 <= Len(s)
     /\ SubSeq(s, i, i + Len(substr) - 1) = substr

\* The predefined rules: a map from domains to rules.
predefinedRules ==
  { [domain |-> <<"y", "z">>, rules |-> "div.post"],
    [domain |-> <<"z">>, rules |-> "article"] }

\* The orders in which a range statement may visit the entries of a map.
RangeOrders(map) ==
  { o \in [1..Cardinality(map) -> map] : \A i, j \in DOMAIN o : i # j => o[i] # o[j] }

\* One of them, for the calls in which the order is not at stake.
SomeOrder == CHOOSE o \in RangeOrders(predefinedRules) : o[1].rules = "div.post"

\* strings.Contains(response.ContentType, "text/html") that lets every
\* content type pass.
ContainsTextHTML_Any(contentType) == TRUE

\* strings.Contains(response.ContentType, "text/html"), a content type
\* being the sequence of its tokens.
ContainsTextHTML(contentType) == Contains(contentType, <<"text/html">>)

PageBody(url, broken) == [op |-> "page", url |-> url, broken |-> broken]

\* The response of the GET of a page, and the order in which the range
\* over the predefined rules goes during this call of Fetch.
PageOK(url, visit) ==
  [err |-> FALSE, status |-> 200, contentType |-> <<"text/html", ";", "charset=utf-8">>,
   encErr |-> FALSE, effectiveURL |-> url, body |-> PageBody(url, FALSE), visit |-> visit]

PageFailed(url, visit) ==
  [err |-> TRUE, status |-> 0, contentType |-> <<>>,
   encErr |-> FALSE, effectiveURL |-> url, body |-> PageBody(url, FALSE), visit |-> visit]

RECURSIVE FirstMatch(_, _, _)
FirstMatch(table, i, urlDomain) ==
  IF i > Len(table) THEN ""
  ELSE IF Contains(urlDomain, table[i].domain) THEN table[i].rules
  ELSE FirstMatch(table, i + 1, urlDomain)

\* getPredefinedScraperRules(websiteURL), table being the entries of
\* predefinedRules in the order the range statement visits them.
getPredefinedScraperRules(websiteURL, table) ==
  FirstMatch(table, 1, Domain(websiteURL))

Node(tag, class, text, parent) ==
  [tag |-> tag, class |-> class, text |-> text, parent |-> parent]

\* The document goquery reads from the body of a page.
Dom(page) ==
  CASE page.url = "a" ->
         << Node("div", "post", "", 0),
              Node("p", "", "", 1),
                Node("#text", "", "t1", 2),
              Node("img", "", "", 1),
              Node("img", "", "", 1),
            Node("div", "post", "", 0),
              Node("#text", "", "t2", 6) >>
    [] page.url = "b" ->
         << Node("article", "", "", 0),
              Node("div", "post", "", 1),
                Node("iframe", "", "", 2),
                Node("#text", "", "t3", 2),
              Node("p", "", "", 1),
                Node("#text", "", "t4", 5) >>
    [] OTHER ->
         << Node("img", "", "", 0),
            Node("p", "", "", 0),
              Node("#text", "", "t5", 2) >>

\* The HTML of the node at place n, and of what is inside it (n = 0: of
\* what is inside the body), from the child at place k on.
RECURSIVE OuterHtml(_, _)
RECURSIVE InnerHtmlFrom(_, _, _)
OuterHtml(dom, n) ==
  IF dom[n].tag = "#text" THEN <<dom[n].text>>
  ELSE <<"<" \o dom[n].tag \o ">">> \o InnerHtmlFrom(dom, n, 1) \o <<"</" \o dom[n].tag \o ">">>

InnerHtmlFrom(dom, n, k) ==
  IF k > Len(dom) THEN <<>>
  ELSE (IF dom[k].parent = n THEN OuterHtml(dom, k) ELSE <<>>)
       \o InnerHtmlFrom(dom, n, k + 1)

\* Selection.Html(): the HTML of what is inside the node.
Html(dom, n) == InnerHtmlFrom(dom, n, 1)

\* Selection.Is(selector) for the selectors of the rules: a tag, a tag
\* with a class, or a list of those.
Is(node, selector) ==
  CASE selector = "div.post" -> node.tag = "div" /\ node.class = "post"
    [] selector = "article" -> node.tag = "article"
    [] selector = "p" -> node.tag = "p"
    [] selector = "img" -> node.tag = "img"
    [] selector = "iframe" -> node.tag = "iframe"
    [] selector = "img, iframe" -> node.tag \in {"img", "iframe"}
    [] selector = "div.post, img" ->
         (node.tag = "div" /\ node.class = "post") \/ node.tag = "img"
    [] OTHER -> FALSE

\* document.Find(rules): the places of the nodes that match, in document
\* order, from place k on.
RECURSIVE Find(_, _, _)
Find(dom, rules, k) ==
  IF k > Len(dom) THEN <<>>
  ELSE (IF Is(dom[k], rules) THEN <<k>> ELSE <<>>) \o Find(dom, rules, k + 1)

\* The test for inline elements that knows images only.
IsInlineElement_ImgOnly(node) == Is(node, "img")

\* s.Is("img") || s.Is("iframe")
IsInlineElement(node) == Is(node, "img") \/ Is(node, "iframe")

\* The function given to Each, for the matched node at place n: what it
\* appends to contents.
ScrapNode(dom, n) ==
  IF IsInlineElement(dom[n]) THEN Html(dom, dom[n].parent) ELSE Html(dom, n)

\* Each over the selection, from its i-th node on.
RECURSIVE ScrapEach(_, _, _)
ScrapEach(dom, selection, i) ==
  IF i > Len(selection) THEN <<>>
  ELSE ScrapNode(dom, selection[i]) \o ScrapEach(dom, selection, i + 1)

\* scrapContent(page, rules): a page goquery cannot read is an error.  The
\* content is the HTML, kept with the rules and the page it was made of.
scrapContent(page, rules) ==
  IF page.broken THEN [err |-> TRUE, content |-> ""]
  ELSE [err |-> FALSE,
        content |-> [op |-> "scrap", rules |-> rules, of |-> page,
                     html |-> ScrapEach(Dom(page), Find(Dom(page), rules, 1), 1)]]

\* readability.ExtractContent
ExtractContent(page) ==
  IF page.broken THEN [err |-> TRUE, content |-> ""]
  ELSE [err |-> FALSE, content |-> [op |-> "readability", of |-> page]]

\* What Fetch returns with an error: no content, no extractor called.
FetchError == [err |-> TRUE, content |-> "", used |-> "none", rules |-> ""]

\* scraper.Fetch(websiteURL, rules, cookies), given the response of the
\* GET and the order in which the predefined table is visited.  used is
\* the extractor it called, rules the rules it called scrapContent with.
Fetch(response, rules, cookies, table) ==
  IF response.err THEN FetchError
  ELSE IF HasServerFailure(response) THEN FetchError
  ELSE IF ~ContainsTextHTML(response.contentType) THEN FetchError
  ELSE IF response.encErr THEN FetchError
  ELSE LET websiteURL == response.effectiveURL
           resolved == IF rules = ""
                       THEN getPredefinedScraperRules(websiteURL, table)
                       ELSE rules
       IN IF resolved # ""
          THEN LET scraped == scrapContent(response.body, resolved)
               IN [err |-> scraped.err, content |-> scraped.content,
                   used |-> "scrapContent", rules |-> resolved]
          ELSE LET extracted == ExtractContent(response.body)
               IN [err |-> extracted.err, content |-> extracted.content,
                   used |-> "ExtractContent", rules |-> ""]

---------------------------------------------------------------------------
(* FeedProcessor (reader/processor).                                       *)

\* FeedProcessor.WithCookies: a new map with the keys and values of the
\* argument.
WithCookies(cookies) == [k \in DOMAIN cookies |-> cookies[k]]

\* ProcessEntry that crawls the entries the user already has as well.
ProcessEntry_CrawlsKnown(es, userID, entry, crawler, scraperRules, rewriteRules, cookies, page) ==
  LET fetched == Fetch(page, scraperRules, cookies, page.visit)
      content1 == IF crawler /\ ~fetched.err THEN fetched.content ELSE entry.content
      content2 == Rewriter(entry.url, content1, rewriteRules)
      content3 == Sanitize(entry.url, content2)
  IN [entry |-> [url |-> entry.url, content |-> content3],
      calls |-> (IF crawler THEN <<Call("EntryURLExists", entry.url),
                                   Call("scraper.Fetch", entry.url)>> ELSE <<>>)
                \o <<Call("Rewriter", entry.url), Call("Sanitize", entry.url)>>]

\* ProcessEntry that sanitizes first and rewrites last.
ProcessEntry_RewritesLast(es, userID, entry, crawler, scraperRules, rewriteRules, cookies, page) ==
  LET known == EntryURLExists(es, userID, entry.url)
      crawl == crawler /\ ~known
      fetched == Fetch(page, scraperRules, cookies, page.visit)
      content1 == IF crawl /\ ~fetched.err THEN fetched.content ELSE entry.content
      content2 == Sanitize(entry.url, content1)
      content3 == Rewriter(entry.url, content2, rewriteRules)
  IN [entry |-> [url |-> entry.url, content |-> content3],
      calls |-> (IF crawler THEN <<Call("EntryURLExists", entry.url)>> ELSE <<>>)
                \o (IF crawl THEN <<Call("scraper.Fetch", entry.url)>> ELSE <<>>)
                \o <<Call("Sanitize", entry.url), Call("Rewriter", entry.url)>>]

\* ProcessEntry that empties the content of an entry whose crawl failed.
ProcessEntry_DropsOnFailure(es, userID, entry, crawler, scraperRules, rewriteRules, cookies, page) ==
  LET known == EntryURLExists(es, userID, entry.url)
      crawl == crawler /\ ~known
      fetched == Fetch(page, scraperRules, cookies, page.visit)
      content1 == IF ~crawl THEN entry.content
                  ELSE IF fetched.err THEN [op |-> "empty"]
                  ELSE fetched.content
      content2 == Rewriter(entry.url, content1, rewriteRules)
      content3 == Sanitize(entry.url, content2)
  IN [entry |-> [url |-> entry.url, content |-> content3],
      calls |-> (IF crawler THEN <<Call("EntryURLExists", entry.url)>> ELSE <<>>)
                \o (IF crawl THEN <<Call("scraper.Fetch", entry.url)>> ELSE <<>>)
                \o <<Call("Rewriter", entry.url), Call("Sanitize", entry.url)>>]

\* The body of the loop of Process for one entry; page is the response a
\* GET of the entry's URL gets.
ProcessEntry(es, userID, entry, crawler, scraperRules, rewriteRules, cookies, page) ==
  LET known == EntryURLExists(es, userID, entry.url)
      crawl == crawler /\ ~known
      fetched == Fetch(page, scraperRules, cookies, page.visit)
      content1 == IF crawl /\ ~fetched.err THEN fetched.content ELSE entry.content
      content2 == Rewriter(entry.url, content1, rewriteRules)
      content3 == Sanitize(entry.url, content2)
  IN [entry |-> [url |-> entry.url, content |-> content3],
      calls |-> (IF crawler THEN <<Call("EntryURLExists", entry.url)>> ELSE <<>>)
                \o (IF crawl THEN <<Call("scraper.Fetch", entry.url)>> ELSE <<>>)
                \o <<Call("Rewriter", entry.url), Call("Sanitize", entry.url)>>]

\* FeedProcessor.Process, from entry i on.
RECURSIVE Process(_, _, _, _, _, _, _, _, _)
Process(es, userID, ents, i, crawler, scraperRules, rewriteRules, cookies, pages) ==
  IF i > Len(ents) THEN [entries |-> <<>>, calls |-> <<>>]
  ELSE LET head == ProcessEntry(es, userID, ents[i], crawler, scraperRules,
                                rewriteRules, cookies, pages[i])
           rest == Process(es, userID, ents, i + 1, crawler, scraperRules,
                           rewriteRules, cookies, pages)
       IN [entries |-> <<head.entry>> \o rest.entries,
           calls |-> head.calls \o rest.calls]

---------------------------------------------------------------------------
(* Handler (reader/feed): CreateFeed and RefreshFeed.  A handler takes the *)
(* tables and its inputs (its arguments and what its collaborators         *)
(* return) and gives the tables it leaves, the error it returns (ret),     *)
(* the branch it ended in (path), the calls it made to its collaborators   *)
(* in order (calls), the records it passed to Storage.UpdateFeed (saved)   *)
(* and the flags it passed to Storage.UpdateEntries (merges).              *)

NoError == "nil"

errStorage == "unable to create feed"
errUpdateEntries == "unable to update entry"
errPanic == "panic: nil pointer dereference"

Outcome(fs, es, ics, ret, path, calls, saved, merges, processed) ==
  [feeds |-> fs, entries |-> es, icons |-> ics, ret |-> ret, path |-> path,
   calls |-> calls, saved |-> saved, merges |-> merges, processed |-> processed]

\* Storage.CategoryExists(userID, categoryID)
CategoryExists(userID, categoryID) == <<userID, categoryID>> \in Categories

\* IsEmptyBody with a test for "no positive length".
IsEmptyBody_NotPositive(response) == response.contentLength <= 0

\* response.ContentLength == 0 (Content-Length = -1 when no header is sent)
IsEmptyBody(response) == response.contentLength = 0

\* The error CreateFeed and RefreshFeed make of a failed clt.Get().
RequestError(response) ==
  IF response.err = "localized" THEN errClient ELSE errRequestFailed

\* Handler.CreateFeed, duplicate being what FeedURLExists has returned (or
\* would return, when the handler stops before it asks).
CreateFeedGiven(duplicate, fs, es, ics, clock, in) ==
  LET response == in.response
      c0 == <<Call("CategoryExists", "")>>
      c1 == c0 \o <<Call("Get", in.url)>>
      c2 == c1 \o <<Call("FeedURLExists", response.effectiveURL)>>
      c3 == c2 \o <<Call("NormalizeBodyEncoding", "")>>
      c4 == c3 \o <<Call("parseFeed", "")>>
      stop(ret, path, calls) == Outcome(fs, es, ics, ret, path, calls, <<>>, <<>>, <<>>)
  IN
  IF ~CategoryExists(in.userID, in.categoryID)
  THEN stop(errCategoryNotFound, "category", c0)
  ELSE IF response.err # "none"
  THEN stop(RequestError(response), "transport", c1)
  ELSE IF HasServerFailure(response)
  THEN stop(ServerFailureMessage(response.status), "serverfailure", c1)
  ELSE IF IsEmptyBody(response)
  THEN stop(errEmptyFeed, "empty", c1)
  ELSE IF duplicate
  THEN stop(errDuplicate, "duplicate", c2)
  ELSE IF response.encErr
  THEN stop(errEncoding, "encoding", c3)
  ELSE IF response.doc.parseErr
  THEN stop(errParse, "parse", c4)
  ELSE
    LET doc == response.doc
        proc == Process(es, in.userID, doc.entries, 1, in.crawler, "", "", << >>, in.pages)
        feedURL == response.effectiveURL
        subscription ==
          [userID |-> in.userID,
           feedURL |-> feedURL,
           siteURL |-> IF doc.siteURL = "" THEN feedURL ELSE doc.siteURL,
           title |-> doc.title,
           categoryID |-> in.categoryID,
           etag |-> response.etag,
           lastModified |-> response.lastModified,
           crawler |-> in.crawler,
           username |-> in.username,
           password |-> in.password]
        created == StorageCreateFeed(fs, es, subscription, proc.entries, clock, in.failAt)
        c5 == c4 \o proc.calls \o <<Call("Storage.CreateFeed", feedURL)>>
        c6 == c5 \o <<Call("FindIcon", subscription.siteURL)>>
    IN IF created.err
       THEN Outcome(created.feeds, created.entries, ics, errStorage, "storage", c5,
                    <<>>, <<>>, proc.entries)
       ELSE IF in.icon = "icon"
       THEN Outcome(created.feeds, created.entries, CreateFeedIcon(ics, created.id),
                    NoError, "created", c6 \o <<Call("CreateFeedIcon", "icon")>>,
                    <<>>, <<>>, proc.entries)
       ELSE Outcome(created.feeds, created.entries, ics, NoError, "created", c6,
                    <<>>, <<>>, proc.entries)

\* Handler.CreateFeed(userID, categoryID, url, crawler, username, password)
CreateFeed(fs, es, ics, clock, in) ==
  CreateFeedGiven(FeedURLExists(fs, in.userID, in.response.effectiveURL),
                  fs, es, ics, clock, in)

\* WithParsingError that sets the count to 1 instead of adding 1.
WithParsingError_SetsOne(feed, message) ==
  [feed EXCEPT !.parsingErrorCount = 1, !.parsingErrorMsg = message]

\* WithParsingError that also forgets the validators of the feed.
WithParsingError_DropsValidators(feed, message) ==
  [feed EXCEPT !.parsingErrorCount = @ + 1, !.parsingErrorMsg = message,
               !.etag = "", !.lastModified = ""]

\* originalFeed.ParsingErrorCount++ ; originalFeed.ParsingErrorMsg = ...
WithParsingError(feed, message) ==
  [feed EXCEPT !.parsingErrorCount = @ + 1, !.parsingErrorMsg = message]

\* EncodingFailure that counts the failure and writes the feed.
EncodingFailure_Persisted(fs, feed, language) ==
  LET f == WithParsingError(feed, Localize(errEncoding, language))
  IN [feeds |-> UpdateFeed(fs, f), saved |-> <<f>>, calls |-> <<Call("UpdateFeed", "")>>]

\* What RefreshFeed does with the feed when NormalizeBodyEncoding fails:
\* it returns at once, the feed is neither changed nor written.
EncodingFailure(fs, feed, language) ==
  [feeds |-> fs, saved |-> <<>>, calls |-> <<>>]

\* WithTokens that takes the ETag and leaves Last-Modified.
WithTokens_EtagOnly(feed, response) ==
  [feed EXCEPT !.etag = response.etag]

\* originalFeed.EtagHeader = response.ETag ;
\* originalFeed.LastModifiedHeader = response.LastModified
WithTokens(feed, response) ==
  [feed EXCEPT !.etag = response.etag, !.lastModified = response.lastModified]

\* UpdateExistingEntries without the negation.
UpdateExistingEntries_Crawler(feed) == feed.crawler

\* The last argument of the call of Storage.UpdateEntries.
UpdateExistingEntries(feed) == ~feed.crawler

\* SuccessTail that leaves the error count as it is.
SuccessTail_KeepsCount(feed) ==
  [feed EXCEPT !.parsingErrorMsg = "",
               !.siteURL = IF @ = "" THEN feed.feedURL ELSE @]

\* The end of RefreshFeed: the error state is cleared and an empty site URL
\* becomes the feed URL.
SuccessTail(feed) ==
  [feed EXCEPT !.parsingErrorCount = 0,
               !.parsingErrorMsg = "",
               !.siteURL = IF @ = "" THEN feed.feedURL ELSE @]

\* Handler.RefreshFeed from the point where FeedByID has returned
\* originalFeed; clock is what time.Now() returns.
RefreshFeedFrom(originalFeed, fs, es, ics, clock, in) ==
  LET userLanguage == IF in.langErr THEN "en_US" ELSE UserLanguageOf(in.userID)
      response == in.response
      c0 == <<Call("UserLanguage", ""), Call("FeedByID", "")>>
      c1 == c0 \o <<Call("Get", originalFeed.feedURL)>>
      c2 == c1 \o <<Call("NormalizeBodyEncoding", "")>>
      c3 == c2 \o <<Call("parseFeed", "")>>
      \* a failure that is written to the feed and ends the refresh
      failed(feed, message, ret, path, calls) ==
        LET f == WithParsingError(feed, Localize(message, userLanguage))
        IN Outcome(UpdateFeed(fs, f), es, ics, ret, path,
                   calls \o <<Call("UpdateFeed", "")>>, <<f>>, <<>>, <<>>)
      \* the end of the function, from "originalFeed.ParsingErrorCount = 0"
      tail(feed, es2, ics2, path, calls, merges, processed) ==
        LET f == SuccessTail(feed)
        IN Outcome(UpdateFeed(fs, f), es2, ics2, NoError, path,
                   calls \o <<Call("UpdateFeed", "")>>, <<f>>, merges, processed)
  IN
  IF originalFeed = NoFeed
  THEN Outcome(fs, es, ics, errNotFound, "feednotfound", c0, <<>>, <<>>, <<>>)
  ELSE IF response.err # "none"
  THEN failed(originalFeed, RequestError(response), RequestError(response), "transport", c1)
  ELSE
    LET checked == [originalFeed EXCEPT !.checkedAt = clock]
    IN
    IF IsNotFound(response)
    THEN failed(checked, errResourceNotFound, errResourceNotFound, "notfound", c1)
    ELSE IF HasServerFailure(response)
    THEN failed(checked, ServerFailureMessage(response.status),
                ServerFailureMessage(response.status), "serverfailure", c1)
    ELSE IF ~IsModified(response, checked.etag, checked.lastModified)
    THEN tail(checked, es, ics, "unmodified", c1, <<>>, <<>>)
    ELSE IF IsEmptyBody(response)
    THEN failed(checked, errEmptyFeed, errEmptyFeed, "empty", c1)
    ELSE IF response.encErr
    THEN LET ef == EncodingFailure(fs, checked, userLanguage)
         IN Outcome(ef.feeds, es, ics, errEncoding, "encoding", c2 \o ef.calls,
                    ef.saved, <<>>, <<>>)
    ELSE IF response.doc.parseErr
    \* "return err": err is the nil error of NormalizeBodyEncoding
    THEN failed(checked, errParse, NoError, "parse", c3)
    ELSE
      LET proc == Process(es, in.userID, response.doc.entries, 1, checked.crawler,
                          checked.scraperRules, checked.rewriteRules,
                          WithCookies(checked.cookies), in.pages)
          tokened == WithTokens(checked, response)
          overwrite == UpdateExistingEntries(tokened)
          merged == UpdateEntries(es, tokened.userID, tokened.id, proc.entries, 1,
                                  overwrite, in.failAt)
          c4 == c3 \o proc.calls \o <<Call("UpdateEntries", "")>>
          c5 == c4 \o <<Call("HasIcon", "")>>
          c6 == c5 \o <<Call("FindIcon", tokened.siteURL)>>
      IN IF merged.err
         THEN Outcome(fs, merged.entries, ics, errUpdateEntries, "merge", c4, <<>>,
                      <<overwrite>>, proc.entries)
         ELSE IF HasIcon(ics, tokened.id)
         THEN tail(tokened, merged.entries, ics, "modified", c5, <<overwrite>>, proc.entries)
         ELSE IF in.icon = "err"
         THEN tail(tokened, merged.entries, ics, "modified", c6, <<overwrite>>, proc.entries)
         ELSE IF in.icon = "icon"
         THEN tail(tokened, merged.entries, CreateFeedIcon(ics, tokened.id), "modified",
                   c6 \o <<Call("CreateFeedIcon", "icon")>>, <<overwrite>>, proc.entries)
         \* FindIcon found none: CreateFeedIcon is called with a nil icon
         ELSE IF in.nilIcon = "panic"
         THEN Outcome(fs, merged.entries, ics, errPanic, "panic",
                      c6 \o <<Call("CreateFeedIcon", "nil")>>, <<>>, <<overwrite>>,
                      proc.entries)
         ELSE tail(tokened, merged.entries, ics, "modified",
                   c6 \o <<Call("CreateFeedIcon", "nil")>>, <<overwrite>>, proc.entries)

\* Handler.RefreshFeed(userID, feedID)
RefreshFeed(fs, es, ics, clock, in) ==
  RefreshFeedFrom(FeedByID(fs, in.userID, in.feedID), fs, es, ics, clock, in)

---------------------------------------------------------------------------
(* The inputs of the handlers.  A feed document has a version: the server  *)
(* gives each version its own validators, version 1 declares no site URL,  *)
(* and a document of one entry is sent without a Content-Length header.    *)

FeedResponse(err, status, contentLength, effectiveURL, tokens, encErr, doc) ==
  [err |-> err, status |-> status, contentLength |-> contentLength,
   effectiveURL |-> effectiveURL, etag |-> tokens[1], lastModified |-> tokens[2],
   encErr |-> encErr, doc |-> doc]

DeclaredSiteURL(ver) == IF ver = 1 THEN "" ELSE "s"

TokensOf(ver) == IF ver = 1 THEN <<"e1", "m1">> ELSE <<"e2", "m2">>

DeclaredLength(n) == IF n = 1 THEN -1 ELSE 10

Doc(n, ver) ==
  [parseErr |-> FALSE, siteURL |-> DeclaredSiteURL(ver), title |-> "T",
   entries |-> ParsedEntries(n, ver)]

\* The response that carries the first n entries at version ver.
DocResponse(effectiveURL, n, ver) ==
  FeedResponse("none", 200, DeclaredLength(n), effectiveURL, TokensOf(ver), FALSE,
               Doc(n, ver))

\* The responses of a GET that did not give a feed document.
FailedResponses(url) ==
  { FeedResponse(e, 0, -1, url, <<"", "">>, FALSE, NoDoc) : e \in {"localized", "plain"} }
  \cup { FeedResponse("none", st, 10, url, <<"", "">>, FALSE, NoDoc) : st \in {404, 500} }

\* The responses with a status below 400 whose body is not a feed: no
\* body, a body in an unknown encoding, a malformed document.
UnusableResponses(url) ==
  { FeedResponse("none", 200, 0, url, <<"e3", "m3">>, FALSE, NoDoc),
    FeedResponse("none", 200, -1, url, <<"e3", "m3">>, TRUE, NoDoc),
    FeedResponse("none", 200, -1, url, <<"e3", "m3">>, FALSE, BadDoc) }

\* The responses to a conditional GET that say the feed is as it was: by
\* status 304, or by a validator that matches a stored one.
RevalidatedResponses(url) ==
  { FeedResponse("none", 304, 0, url, <<"e2", "m1">>, FALSE, NoDoc),
    FeedResponse("none", 200, 0, url, <<"e2", "m1">>, FALSE, NoDoc),
    FeedResponse("none", 200, 10, url, <<"e2", "m1">>, FALSE, Doc(1, 2)) }

\* The responses of the pages of the entries: those of the entries in
\* fails are failures.
PagesOf(ents, fails, visit) ==
  [i \in 1..Len(ents) |->
     IF i \in fails THEN PageFailed(ents[i].url, visit) ELSE PageOK(ents[i].url, visit)]

\* What happens after the document is parsed: which crawls fail, which
\* statement of the storage fails (-1: none), what the icon finder
\* returns, what CreateFeedIcon does with a nil icon, and the order in
\* which the crawls visit the predefined rules.
After(fails, failAt, icon, nilIcon, visit) ==
  [fails |-> fails, failAt |-> failAt, icon |-> icon, nilIcon |-> nilIcon,
   visit |-> visit]

NoAfter == After({}, -1, "icon", "ignored", SomeOrder)

\* One thing goes wrong at a time: the crawl of the first entry, the first
\* or the last statement of the storage, or the icon finder; or the crawls
\* visit the predefined rules in another order.
Afters(n, crawler, firstStatement, finds) ==
  { NoAfter }
  \cup { After({1}, -1, "icon", "ignored", SomeOrder) :
           x \in (IF crawler /\ n > 0 THEN {1} ELSE {}) }
  \cup { After({}, k, "icon", "ignored", SomeOrder) :
           k \in {firstStatement, n} \cap (firstStatement..n) }
  \cup { After({}, -1, i, "ignored", SomeOrder) : i \in finds }
  \cup { After({}, -1, "none", "panic", SomeOrder) : x \in ({"none"} \cap finds) }
  \cup { After({}, -1, "icon", "ignored", o) :
           o \in (IF crawler /\ n > 1 THEN RangeOrders(predefinedRules) ELSE {}) }

CreateInput(userID, categoryID, url, crawler, credentials, response, after) ==
  [userID |-> userID, categoryID |-> categoryID, url |-> url, crawler |-> crawler,
   username |-> credentials[1], password |-> credentials[2], response |-> response,
   pages |-> PagesOf(response.doc.entries, after.fails, after.visit),
   failAt |-> after.failAt, icon |-> after.icon, nilIcon |-> after.nilIcon]

RefreshInput(userID, feedID, langErr, response, after) ==
  [userID |-> userID, feedID |-> feedID, langErr |-> langErr, response |-> response,
   pages |-> PagesOf(response.doc.entries, after.fails, after.visit),
   failAt |-> after.failAt, icon |-> after.icon, nilIcon |-> after.nilIcon]

\* The subscriptions the users ask for: user 1 for both URLs, user 2 for
\* the first.
Requests == {<<1, "u1">>, <<1, "u2">>, <<2, "u1">>}

\* The documents a new subscription may find.
CreateDocs(effectiveURL) ==
  { DocResponse(effectiveURL, n, 1) : n \in 0..MaxEntries }
  \cup { DocResponse(effectiveURL, 0, 2) }

\* The inputs of a CreateFeed of user userID for url, into a category of
\* the user.
CreateInputsFor(userID, categoryID, url) ==
  UNION {
    { CreateInput(userID, categoryID, url, cr, cred, r, NoAfter) :
        r \in FailedResponses(url) \cup UnusableResponses(url) }
    \cup UNION { { CreateInput(userID, categoryID, url, cr, cred, r, a) :
                     a \in Afters(Len(r.doc.entries), cr, 0, {"err", "none"}) } :
                 r \in UNION { CreateDocs(e) : e \in EffectiveURLs(url) } } :
    cr \in BOOLEAN, cred \in Credentials }

CreateInputsOf(userID, url) ==
  { CreateInput(userID, c, url, FALSE, <<"bob", "pw">>, DocResponse(url, 1, 1), NoAfter) :
      c \in {x \in CategoryIDs : ~CategoryExists(userID, x)} }
  \cup UNION { CreateInputsFor(userID, c, url) :
                 c \in {x \in CategoryIDs : CategoryExists(userID, x)} }

CreateInputs == UNION { CreateInputsOf(r[1], r[2]) : r \in Requests }

\* The inputs of a refresh of feed feedID by user userID.
RefreshInputs(fs, ics, userID, feedID) ==
  IF fs[feedID].userID # userID
  THEN { RefreshInput(userID, feedID, FALSE, DocResponse("u1", 1, 1), NoAfter) }
  ELSE LET row == fs[feedID]
           url == row.feedURL
       IN { RefreshInput(userID, feedID, l, r, NoAfter) :
              l \in BOOLEAN,
              r \in FailedResponses(url) \cup UnusableResponses(url) }
          \cup { RefreshInput(userID, feedID, FALSE, r, NoAfter) :
                   r \in RevalidatedResponses(url) }
          \cup UNION { { RefreshInput(userID, feedID, FALSE, r, a) :
                           a \in Afters(Len(r.doc.entries), row.crawler, 1,
                                        IF HasIcon(ics, feedID) THEN {} ELSE {"err", "none"}) } :
                       r \in { DocResponse(url, n, v) : n \in 0..MaxEntries, v \in Versions } }

-----
(* The state machine.  A handler runs as one step, on the tables as they   *)
(* are; last keeps the invocation that has just run (its inputs, the       *)
(* tables before it and its outcome) until it returns to its caller.       *)
(* errHist keeps, for every feed, the refreshes since its error count was  *)
(* last cleared: n failures in a row that were written to the feed, the    *)
(* last of them with the given message in the given language; n = -1       *)
(* when a refresh that wrote nothing came in between.                      *)

Idle == [op |-> "none"]

Invocation(op, in, out, loaded) ==
  [op |-> op, in |-> in,
   pre |-> [feeds |-> feeds, entries |-> entries, icons |-> icons],
   loaded |-> loaded,
   ret |-> out.ret, path |-> out.path, calls |-> out.calls, saved |-> out.saved,
   merges |-> out.merges, processed |-> out.processed]

NoHistory == [n |-> 0, message |-> "", language |-> ""]

\* No function of the scraper or of the processor has been called.
NoCall == [fn |-> "none"]

WrittenFailures == {"transport", "notfound", "serverfailure", "empty", "parse"}

\* The message of the failure a refresh with this response ended in.
FailureMessage(path, response) ==
  CASE path = "transport" -> RequestError(response)
    [] path = "notfound" -> errResourceNotFound
    [] path = "serverfailure" -> ServerFailureMessage(response.status)
    [] path = "empty" -> errEmptyFeed
    [] path = "parse" -> errParse
    [] OTHER -> ""

NextHistory(h, path, response, language) ==
  IF path \in WrittenFailures
  THEN IF h.n < 0 THEN h
       ELSE [n |-> h.n + 1, message |-> FailureMessage(path, response),
             language |-> language]
  ELSE IF path \in {"unmodified", "modified"} THEN NoHistory
  ELSE IF path = "feednotfound" THEN h
  ELSE [h EXCEPT !.n = -1]

Init ==
  /\ feeds = <<>>
  /\ entries = {}
  /\ icons = {}
  /\ now = 0
  /\ last = Idle
  /\ errHist = <<>>
  /\ pending = <<>>
  /\ call = NoCall

CreateFeedAction ==
  /\ last = Idle
  /\ now < MaxClock
  /\ Len(feeds) < MaxFeeds
  /\ \E in \in CreateInputs :
       \E out \in {CreateFeed(feeds, entries, icons, now + 1, in)} :
          /\ feeds' = out.feeds
          /\ entries' = out.entries
          /\ icons' = out.icons
          /\ now' = now + 1
          /\ last' = Invocation("create", in, out, NoFeed)
          /\ errHist' = IF Len(out.feeds) > Len(feeds)
                        THEN Append(errHist, NoHistory) ELSE errHist
          /\ UNCHANGED <<pending, call>>

RefreshFeedAction ==
  /\ last = Idle
  /\ now < MaxClock
  /\ \E userID \in Users, feedID \in DOMAIN feeds :
       \E in \in RefreshInputs(feeds, icons, userID, feedID) :
         \E out \in {RefreshFeed(feeds, entries, icons, now + 1, in)},
            language \in {IF in.langErr THEN "en_US" ELSE UserLanguageOf(userID)} :
            /\ feeds' = out.feeds
            /\ entries' = out.entries
            /\ icons' = out.icons
            /\ now' = now + 1
            /\ last' = Invocation("refresh", in, out, FeedByID(feeds, userID, feedID))
            /\ errHist' = [errHist EXCEPT
                             ![feedID] = NextHistory(@, out.path, in.response, language)]
            /\ UNCHANGED <<pending, call>>

\* The invocation returns to its caller.
Return ==
  /\ last # Idle
  /\ last' = Idle
  /\ UNCHANGED <<feeds, entries, icons, now, errHist, pending, call>>

Next == CreateFeedAction \/ RefreshFeedAction \/ Return

Spec == Init /\ [][Next]_vars

---------------------------------------------------------------------------
(* The feed form of the UI (ui/form) and the edit of a feed: the handler   *)
(* loads the feed, validates the form, merges it into the feed and writes  *)
(* the feed.                                                               *)

FeedForm(feedURL, siteURL, title, scraperRules, rewriteRules, cookies, crawler, categoryID, username, password) ==
  [feedURL |-> feedURL, siteURL |-> siteURL, title |-> title,
   scraperRules |-> scraperRules, rewriteRules |-> rewriteRules, cookies |-> cookies,
   crawler |-> crawler, categoryID |-> categoryID, username |-> username,
   password |-> password]

\* FeedForm.ValidateModification: TRUE when it returns no error.
ValidateModification(f) ==
  ~(f.feedURL = "" \/ f.siteURL = "" \/ f.title = "" \/ f.categoryID = 0)

\* Merge that clears the error count and leaves the message.
Merge_KeepsMessage(f, feed) ==
  [feed EXCEPT !.categoryID = f.categoryID,
               !.title = f.title,
               !.siteURL = f.siteURL,
               !.feedURL = f.feedURL,
               !.scraperRules = f.scraperRules,
               !.rewriteRules = f.rewriteRules,
               !.cookies = f.cookies,
               !.crawler = f.crawler,
               !.parsingErrorCount = 0,
               !.username = f.username,
               !.password = f.password]

\* FeedForm.Merge(feed)
Merge(f, feed) ==
  [feed EXCEPT !.categoryID = f.categoryID,
               !.title = f.title,
               !.siteURL = f.siteURL,
               !.feedURL = f.feedURL,
               !.scraperRules = f.scraperRules,
               !.rewriteRules = f.rewriteRules,
               !.cookies = f.cookies,
               !.crawler = f.crawler,
               !.parsingErrorCount = 0,
               !.parsingErrorMsg = "",
               !.username = f.username,
               !.password = f.password]

\* The form EditFeed shows for a feed.
EditFeed(feed) ==
  FeedForm(feed.feedURL, feed.siteURL, feed.title, feed.scraperRules, feed.rewriteRules,
           feed.cookies, feed.crawler, feed.categoryID, feed.username, feed.password)

\* The forms a user sends back for a feed: with another feed URL, with
\* another extraction, or without a title.
Forms(feed) ==
  { [EditFeed(feed) EXCEPT !.feedURL = u] : u \in URLs }
  \cup { [EditFeed(feed) EXCEPT !.scraperRules = "p", !.rewriteRules = "add_dynamic_image",
                                !.cookies = [sid |-> "1"], !.crawler = TRUE],
         [EditFeed(feed) EXCEPT !.title = ""] }

---------------------------------------------------------------------------
(* The handlers running side by side.  A handler reads the feeds table     *)
(* when it begins (CreateFeed: FeedURLExists; RefreshFeed and the edit:    *)
(* FeedByID) and writes when it ends; other handlers may begin and end in  *)
(* between.  pending keeps the handlers that have begun, each with its     *)
(* input and with what it has read; last keeps the handler that ended      *)
(* last, and whether the feeds table had changed since it began.           *)

Remove(seq, i) == SubSeq(seq, 1, i - 1) \o SubSeq(seq, i + 1, Len(seq))

\* The subscriptions asked for side by side: a document of one entry.
ConcurrentCreateInputs ==
  UNION { { CreateInput(r[1], c, r[2], FALSE, <<"bob", "pw">>, DocResponse(e, 1, 1), NoAfter) :
              c \in {x \in CategoryIDs : CategoryExists(r[1], x)},
              e \in EffectiveURLs(r[2]) } :
          r \in Requests }

\* The responses of the refreshes run side by side.
ConcurrentRefreshInputs(feed) ==
  { RefreshInput(feed.userID, feed.id, FALSE, r, NoAfter) :
      r \in FailedResponses(feed.feedURL) \cup UnusableResponses(feed.feedURL)
            \cup { FeedResponse("none", 304, 0, feed.feedURL, <<"", "">>, FALSE, NoDoc),
                   DocResponse(feed.feedURL, 1, 2) } }

\* The fields of a row a user sets: those FeedForm.Merge writes, the site
\* URL left out.
Config(row) ==
  [title |-> row.title, feedURL |-> row.feedURL, categoryID |-> row.categoryID,
   scraperRules |-> row.scraperRules, rewriteRules |-> row.rewriteRules,
   cookies |-> row.cookies, crawler |-> row.crawler,
   username |-> row.username, password |-> row.password]

\* What the user has set, feed by feed.
Configs(fs) == [i \in DOMAIN fs |-> Config(fs[i])]

\* before: what the user had set when the handler came to its writes.
Ended(op, feedID, path, stale, before) ==
  [op |-> op, feedID |-> feedID, path |-> path, stale |-> stale, before |-> before]

CreateFeedBegin ==
  /\ Len(pending) < MaxPending
  /\ now < MaxClock
  /\ \E in \in ConcurrentCreateInputs :
       pending' = Append(pending,
                         [op |-> "create", in |-> in, read |-> feeds,
                          duplicate |-> FeedURLExists(feeds, in.userID,
                                                      in.response.effectiveURL)])
  /\ now' = now + 1
  /\ UNCHANGED <<feeds, entries, icons, last, errHist, call>>

CreateFeedEnd ==
  /\ \E i \in DOMAIN pending :
       /\ pending[i].op = "create"
       /\ Len(feeds) < MaxFeeds
       /\ \E p \in {pending[i]} :
            \E out \in {CreateFeedGiven(p.duplicate, feeds, entries, icons, now, p.in)} :
              /\ feeds' = out.feeds
              /\ entries' = out.entries
              /\ icons' = out.icons
              /\ last' = Ended("create", Len(out.feeds), out.path, p.read # feeds, Configs(feeds))
       /\ pending' = Remove(pending, i)
  /\ UNCHANGED <<now, errHist, call>>

RefreshFeedBegin ==
  /\ Len(pending) < MaxPending
  /\ now < MaxClock
  /\ \E feedID \in DOMAIN feeds :
       \E feed \in {FeedByID(feeds, feeds[feedID].userID, feedID)} :
          \E in \in ConcurrentRefreshInputs(feed) :
            pending' = Append(pending,
                              [op |-> "refresh", in |-> in, read |-> feeds,
                               loaded |-> feed])
  /\ now' = now + 1
  /\ UNCHANGED <<feeds, entries, icons, last, errHist, call>>

RefreshFeedEnd ==
  /\ \E i \in DOMAIN pending :
       /\ pending[i].op = "refresh"
       /\ \E p \in {pending[i]} :
            \E out \in {RefreshFeedFrom(p.loaded, feeds, entries, icons, now, p.in)} :
              /\ feeds' = out.feeds
              /\ entries' = out.entries
              /\ icons' = out.icons
              /\ last' = Ended("refresh", p.in.feedID, out.path, p.read # feeds, Configs(feeds))
       /\ pending' = Remove(pending, i)
  /\ UNCHANGED <<now, errHist, call>>

EditFeedBegin ==
  /\ Len(pending) < MaxPending
  /\ now < MaxClock
  /\ \E feedID \in DOMAIN feeds :
       \E feed \in {FeedByID(feeds, feeds[feedID].userID, feedID)} :
          \E form \in Forms(feed) :
            pending' = Append(pending,
                              [op |-> "edit", form |-> form, read |-> feeds,
                               loaded |-> feed])
  /\ now' = now + 1
  /\ UNCHANGED <<feeds, entries, icons, last, errHist, call>>

EditFeedEnd ==
  /\ \E i \in DOMAIN pending :
       /\ pending[i].op = "edit"
       /\ \E p \in {pending[i]} :
            IF ValidateModification(p.form)
            THEN /\ feeds' = UpdateFeed(feeds, Merge(p.form, p.loaded))
                 /\ last' = Ended("edit", p.loaded.id, "saved", p.read # feeds, Configs(feeds))
            ELSE /\ feeds' = feeds
                 /\ last' = Ended("edit", p.loaded.id, "invalid", p.read # feeds, Configs(feeds))
       /\ pending' = Remove(pending, i)
  /\ UNCHANGED <<entries, icons, now, errHist, call>>

ResetFeedErrorsAction ==
  /\ now < MaxClock
  /\ feeds # <<>>
  /\ feeds' = ResetFeedErrors(feeds)
  /\ now' = now + 1
  /\ last' = Ended("reset", 0, "reset", FALSE, Configs(feeds))
  /\ UNCHANGED <<entries, icons, errHist, pending, call>>

NextConcurrent ==
  \/ CreateFeedBegin \/ CreateFeedEnd
  \/ RefreshFeedBegin \/ RefreshFeedEnd
  \/ EditFeedBegin \/ EditFeedEnd
  \/ ResetFeedErrorsAction

SpecConcurrent == Init /\ [][NextConcurrent]_vars

---------------------------------------------------------------------------
(* The functions of the scraper and of the processor, called on their own  *)
(* with arguments of every kind: call keeps the arguments of the last      *)
(* call and what it returned.                                              *)

EntryURLs == {EntryURLSeq[i] : i \in DOMAIN EntryURLSeq}

Selectors == {"div.post", "article", "p", "img", "img, iframe", "div.post, img", "h1"}

\* The responses the GET of the page url may get.
PageResponses(url, visit) ==
  { PageOK(e, visit) : e \in EntryURLs }
  \cup { PageFailed(url, visit),
         [PageOK(url, visit) EXCEPT !.status = 500],
         [PageOK(url, visit) EXCEPT !.contentType = <<"application/pdf">>],
         [PageOK(url, visit) EXCEPT !.encErr = TRUE],
         [PageOK(url, visit) EXCEPT !.body = PageBody(url, TRUE)] }

\* The entries the user has, for a set of URLs.
KnownEntries(urls) ==
  { [userID |-> 1, feedID |-> 1, url |-> u, content |-> FeedContent(u, 1)] : u \in urls }

\* Two calls of getPredefinedScraperRules for one URL.
LookupAction ==
  /\ \E url \in EntryURLs, o1 \in RangeOrders(predefinedRules),
        o2 \in RangeOrders(predefinedRules) :
       call' = [fn |-> "getPredefinedScraperRules", url |-> url,
                first |-> getPredefinedScraperRules(url, o1),
                second |-> getPredefinedScraperRules(url, o2)]
  /\ UNCHANGED <<feeds, entries, icons, now, last, errHist, pending>>

ScrapAction ==
  /\ \E url \in EntryURLs, broken \in BOOLEAN, rules \in Selectors :
       call' = [fn |-> "scrapContent", page |-> PageBody(url, broken), rules |-> rules,
                out |-> scrapContent(PageBody(url, broken), rules)]
  /\ UNCHANGED <<feeds, entries, icons, now, last, errHist, pending>>

FetchAction ==
  /\ \E url \in EntryURLs, rules \in {"", "p", "img, iframe"},
        visit \in RangeOrders(predefinedRules) :
       \E response \in PageResponses(url, visit) :
         call' = [fn |-> "Fetch", websiteURL |-> url, rules |-> rules,
                  response |-> response,
                  out |-> Fetch(response, rules, << >>, visit)]
  /\ UNCHANGED <<feeds, entries, icons, now, last, errHist, pending>>

ProcessAction ==
  /\ \E n \in 0..MaxEntries, known \in SUBSET {EntryURLSeq[i] : i \in 1..MaxEntries},
        crawler \in BOOLEAN, scraperRules \in {"", "p"},
        rewriteRules \in {"", "add_dynamic_image"},
        visit \in RangeOrders(predefinedRules) :
       \E pages \in [1..n -> UNION { {PageOK(u, visit), PageFailed(u, visit)} : u \in EntryURLs }] :
         /\ \A i \in 1..n : pages[i].effectiveURL = EntryURLSeq[i]
         /\ call' = [fn |-> "Process", known |-> known, ents |-> ParsedEntries(n, 1),
                     crawler |-> crawler, scraperRules |-> scraperRules,
                     rewriteRules |-> rewriteRules, pages |-> pages,
                     out |-> Process(KnownEntries(known), 1, ParsedEntries(n, 1), 1,
                                     crawler, scraperRules, rewriteRules, << >>, pages)]
  /\ UNCHANGED <<feeds, entries, icons, now, last, errHist, pending>>

\* Cookie maps are Go maps: a variable holds a reference to a map, and two
\* variables may hold the same one.  heap is the sequence of the maps
\* there are, a reference is a place in it.
CookieMaps == { [k \in keys |-> "1"] : keys \in SUBSET {"sid", "lang"} }

\* What the caller may do to its map: add a key, change a value, delete
\* a key.
Mutations(m) ==
  { [k \in DOMAIN m \cup {"new"} |-> IF k = "new" THEN "x" ELSE m[k]] }
  \cup { [m EXCEPT ![k] = "changed"] : k \in DOMAIN m }
  \cup { [j \in DOMAIN m \ {k} |-> m[j]] : k \in DOMAIN m }

\* FeedProcessor.WithCookies(cookies): f.cookies is a new map, filled
\* with the keys and values of the argument.
WithCookiesOnHeap(heap, cookies) ==
  [heap |-> Append(heap, WithCookies(heap[cookies])), cookies |-> Len(heap) + 1]

\* FeedForm.Merge(feed), for the cookies: feed.Cookies = f.Cookies.
MergeCookiesOnHeap(heap, cookies) ==
  [heap |-> heap, cookies |-> cookies]

CookiesCall(fn, atCall, out) ==
  [fn |-> fn, heap |-> out.heap, caller |-> 1, held |-> out.cookies,
   atCall |-> atCall, mutated |-> FALSE]

\* The processor is given the map of a caller.
WithCookiesAction ==
  /\ \E m \in CookieMaps :
       call' = CookiesCall("WithCookies", m, WithCookiesOnHeap(<<m>>, 1))
  /\ UNCHANGED <<feeds, entries, icons, now, last, errHist, pending>>

\* A form, with the map of a caller, is merged into a feed.
MergeAction ==
  /\ \E m \in CookieMaps :
       call' = CookiesCall("Merge", m, MergeCookiesOnHeap(<<m>>, 1))
  /\ UNCHANGED <<feeds, entries, icons, now, last, errHist, pending>>

\* After the call, the caller changes its map.
CallerMutatesAction ==
  /\ call.fn \in {"WithCookies", "Merge"}
  /\ ~call.mutated
  /\ \E m \in Mutations(call.heap[call.caller]) :
       call' = [call EXCEPT !.heap[call.caller] = m, !.mutated = TRUE]
  /\ UNCHANGED <<feeds, entries, icons, now, last, errHist, pending>>

NextCalls ==
  \/ LookupAction \/ ScrapAction \/ FetchAction \/ ProcessAction
  \/ WithCookiesAction \/ MergeAction \/ CallerMutatesAction

SpecCalls == Init /\ [][NextCalls]_vars

---------------------------------------------------------------------------
(* Properties.  They are stated on the state in which an invocation has    *)
(* run and not yet returned: last holds its inputs and its outcome,        *)
(* last.pre the tables before it, and the tables are as it left them.      *)

Refreshed == last.op = "refresh" /\ last.loaded # NoFeed

\* The row of the refreshed feed before and after the refresh.
RowBefore == last.pre.feeds[last.in.feedID]
RowAfter == feeds[last.in.feedID]

Called(fn) == \E i \in DOMAIN last.calls : last.calls[i].fn = fn

CalledWith(fn, url) ==
  \E i \in DOMAIN last.calls : last.calls[i] = Call(fn, url)

TimesCalled(fn) == Cardinality({i \in DOMAIN last.calls : last.calls[i].fn = fn})

\* The fetch gave no response, or a response with a failure status.
TransportFailed == last.in.response.err # "none"
StatusFailed == last.in.response.err = "none" /\ last.in.response.status >= 400
\* The fetch gave a response with a status below 400.
Fetched == last.in.response.err = "none" /\ last.in.response.status < 400

\* The response of a refresh is a modified one for the loaded feed.
Modified ==
  IsModified(last.in.response, last.loaded.etag, last.loaded.lastModified)

\* The language the messages of the refresh are written in.
RefreshLanguage ==
  IF last.in.langErr THEN "en_US" ELSE UserLanguageOf(last.in.userID)

\* The other rows of the feeds table are as they were.
OtherRowsUnchanged ==
  /\ DOMAIN feeds = DOMAIN last.pre.feeds
  /\ \A i \in DOMAIN feeds : i # last.in.feedID => feeds[i] = last.pre.feeds[i]

\* C1: after n refreshes in a row of a feed whose error count was 0, each
\* ending in a failure that is written to the feed, the stored count is n
\* and the stored message is the localized message of the last of them.
C1_ErrorsAccumulate ==
  \A id \in DOMAIN feeds :
    errHist[id].n >= 0 =>
      /\ feeds[id].parsingErrorCount = errHist[id].n
      /\ errHist[id].n > 0 =>
           feeds[id].parsingErrorMsg = Localize(errHist[id].message, errHist[id].language)

\* Two failures in a row of different kinds have been written to a feed.
C1_Witness ==
  /\ Refreshed
  /\ errHist[last.in.feedID].n = 2
  /\ RowBefore.parsingErrorCount = 1
  /\ RowBefore.parsingErrorMsg # RowAfter.parsingErrorMsg

\* C2: a refresh whose modified document does not parse adds one to the
\* error count, sets the message, writes the feed and returns an error.
C2_ParseFailureReturnsError ==
  (/\ Refreshed
   /\ Fetched /\ Modified
   /\ last.in.response.contentLength # 0
   /\ ~last.in.response.encErr
   /\ last.in.response.doc.parseErr)
  => /\ RowAfter.parsingErrorCount = RowBefore.parsingErrorCount + 1
     /\ RowAfter.parsingErrorMsg = Localize(errParse, RefreshLanguage)
     /\ TimesCalled("UpdateFeed") = 1
     /\ last.ret # NoError

\* C3, as stated: after a failed fetch (no response, 404, another failure
\* status) the row differs from the row before in the error count and the
\* error message only.
C3_FetchFailureWritesOnlyErrorFields ==
  (Refreshed /\ (TransportFailed \/ StatusFailed))
  => /\ RowAfter = [RowBefore EXCEPT
                      !.parsingErrorCount = RowAfter.parsingErrorCount,
                      !.parsingErrorMsg = RowAfter.parsingErrorMsg]
     /\ OtherRowsUnchanged

\* C3, amended: after a failed fetch the row differs from the row before
\* in the error count and the error message and, when a response came
\* (404 or another failure status), in checkedAt, which is the time of the
\* refresh; every other field, the validators among them, is unchanged.
C3_FetchFailureWritesErrorFieldsAndCheckedAt ==
  (Refreshed /\ (TransportFailed \/ StatusFailed))
  => /\ RowAfter = [RowBefore EXCEPT
                      !.parsingErrorCount = RowAfter.parsingErrorCount,
                      !.parsingErrorMsg = RowAfter.parsingErrorMsg,
                      !.checkedAt = IF StatusFailed THEN now ELSE @]
     /\ RowAfter.parsingErrorCount = RowBefore.parsingErrorCount + 1
     /\ RowAfter.parsingErrorMsg # ""
     /\ OtherRowsUnchanged
     /\ entries = last.pre.entries
     /\ last.ret # NoError

\* A refresh got a 404 of a feed that has validators, and moved checkedAt.
C3_Witness ==
  /\ Refreshed
  /\ last.in.response.status = 404
  /\ RowBefore.etag # ""
  /\ RowAfter.checkedAt > RowBefore.checkedAt

\* C4: a CreateFeed that returns an error leaves no new feed row and no
\* new entry.
C4_FailedCreatePersistsNothing ==
  (last.op = "create" /\ last.ret # NoError)
  => /\ feeds = last.pre.feeds
     /\ entries = last.pre.entries

\* The pipeline steps that only a modified refresh takes.
ParsedOrMerged ==
  \/ Called("NormalizeBodyEncoding") \/ Called("parseFeed")
  \/ Called("EntryURLExists") \/ Called("scraper.Fetch")
  \/ Called("Rewriter") \/ Called("Sanitize")
  \/ Called("UpdateEntries") \/ Called("FindIcon") \/ Called("CreateFeedIcon")

\* C5: a refresh whose fetch reports "not modified" parses, processes and
\* merges nothing, leaves the entries and the validators as stored, clears
\* the error count and message, moves checkedAt forward and writes the
\* feed exactly once.
C5_NotModifiedRefresh ==
  (Refreshed /\ Fetched /\ ~Modified)
  => /\ ~ParsedOrMerged
     /\ entries = last.pre.entries
     /\ icons = last.pre.icons
     /\ RowAfter.etag = RowBefore.etag
     /\ RowAfter.lastModified = RowBefore.lastModified
     /\ RowAfter.parsingErrorCount = 0
     /\ RowAfter.parsingErrorMsg = ""
     /\ RowAfter.checkedAt > RowBefore.checkedAt
     /\ TimesCalled("UpdateFeed") = 1
     /\ Len(last.saved) = 1
     /\ OtherRowsUnchanged
     /\ last.ret = NoError

\* A feed in error is refreshed by a response that is not modified and
\* carries validators other than the stored ones.
C5_Witness ==
  /\ Refreshed /\ Fetched /\ ~Modified
  /\ RowBefore.parsingErrorCount > 0
  /\ RowBefore.parsingErrorMsg # ""
  /\ last.in.response.status = 200
  /\ last.in.response.etag # RowBefore.etag

\* C6: whatever the stored error count, a refresh fetches the feed, and a
\* refresh that returns no error leaves the count 0, the message empty
\* and the site URL not empty.
C6_RefreshWithoutErrorResets ==
  Refreshed
  => /\ CalledWith("Get", RowBefore.feedURL)
     /\ last.ret = NoError =>
          /\ RowAfter.parsingErrorCount = 0
          /\ RowAfter.parsingErrorMsg = ""
          /\ RowAfter.siteURL # ""

\* The handler ran Process on the parsed entries.
Processed ==
  /\ last.op \in {"create", "refresh"}
  /\ last.path \in {"created", "storage", "modified", "merge", "panic"}

\* The arguments the processor was given.
ProcessCrawler == IF last.op = "create" THEN last.in.crawler ELSE last.loaded.crawler
ProcessRewriteRules == IF last.op = "create" THEN "" ELSE last.loaded.rewriteRules

ParsedEntry(i) == last.in.response.doc.entries[i]

\* The user had an entry with this URL before the invocation.
KnownBefore(url) ==
  \E e \in last.pre.entries : e.userID = last.in.userID /\ e.url = url

\* C7: with the crawler on, an entry whose URL the user already has is not
\* fetched and keeps the content of the document, which is still
\* rewritten and then sanitized.
C7_KnownEntriesNotCrawled ==
  (Processed /\ ProcessCrawler)
  => /\ Len(last.processed) = Len(last.in.response.doc.entries)
     /\ \A i \in DOMAIN last.processed :
          KnownBefore(ParsedEntry(i).url) =>
            /\ ~CalledWith("scraper.Fetch", ParsedEntry(i).url)
            /\ CalledWith("Rewriter", ParsedEntry(i).url)
            /\ CalledWith("Sanitize", ParsedEntry(i).url)
            /\ last.processed[i].content =
                 Sanitize(ParsedEntry(i).url,
                          Rewriter(ParsedEntry(i).url, ParsedEntry(i).content,
                                   ProcessRewriteRules))

\* A batch with a known entry, which is not fetched, and a new one, which
\* is.
C7_Witness ==
  /\ Processed /\ ProcessCrawler
  /\ \E i, j \in DOMAIN last.processed :
       /\ KnownBefore(ParsedEntry(i).url)
       /\ ~KnownBefore(ParsedEntry(j).url)
       /\ CalledWith("scraper.Fetch", ParsedEntry(j).url)

\* The content is what an extractor made of the page, rewritten and then
\* sanitized.
CrawledRewrittenSanitized(content, url, page) ==
  /\ content.op = "sanitize" /\ content.url = url
  /\ content.of.op = "rewrite" /\ content.of.url = url
  /\ content.of.rules = last.loaded.rewriteRules
  /\ content.of.of.op \in {"scrap", "readability"}
  /\ content.of.of.of = page.body

\* C8: a modified refresh calls the merge with overwriteExisting = not
\* crawler; with the crawler on, every entry stored before the refresh is
\* stored unchanged after it, and an entry the user did not have, whose
\* page the crawl got, is inserted with the crawled content, rewritten and
\* then sanitized.
C8_MergeKeepsKnownEntries ==
  (Refreshed /\ Called("UpdateEntries"))
  => /\ last.merges = << ~RowBefore.crawler >>
     /\ RowBefore.crawler =>
          /\ last.pre.entries \subseteq entries
          /\ last.path \in {"modified", "panic"} =>
               \A i \in DOMAIN last.processed :
                 (~KnownBefore(ParsedEntry(i).url) /\ ~last.in.pages[i].err) =>
                   \E e \in entries :
                     /\ e.userID = last.in.userID
                     /\ e.feedID = last.in.feedID
                     /\ e.url = ParsedEntry(i).url
                     /\ CrawledRewrittenSanitized(e.content, e.url, last.in.pages[i])

\* A refresh with the crawler on parses an entry the feed has, with
\* another content than the stored one, and an entry the user has not.
C8_Witness ==
  /\ Refreshed /\ Called("UpdateEntries") /\ RowBefore.crawler
  /\ last.path = "modified"
  /\ \E i, j \in DOMAIN last.processed :
       /\ \E e \in last.pre.entries :
            /\ e.feedID = last.in.feedID /\ e.url = ParsedEntry(i).url
            /\ e.content # last.processed[i].content
       /\ ~KnownBefore(ParsedEntry(j).url)
       /\ ~last.in.pages[j].err

\* The CreateFeed got as far as the check for a duplicate.
ReachedDuplicateCheck ==
  /\ last.op = "create"
  /\ <<last.in.userID, last.in.categoryID>> \in Categories
  /\ Fetched
  /\ last.in.response.contentLength # 0

\* The user of the CreateFeed had a feed with the effective URL.
SubscribedBefore ==
  \E i \in DOMAIN last.pre.feeds :
    /\ last.pre.feeds[i].userID = last.in.userID
    /\ last.pre.feeds[i].feedURL = last.in.response.effectiveURL

\* C9: a CreateFeed whose effective URL is a feed URL of the same user
\* returns the duplicate error and creates no row; a feed of another user
\* with that URL does not; and a row that is created has the effective
\* URL as its feed URL.
C9_DuplicateFeedRejected ==
  /\ ReachedDuplicateCheck =>
       /\ SubscribedBefore =>
            /\ last.ret = errDuplicate
            /\ feeds = last.pre.feeds
            /\ entries = last.pre.entries
       /\ ~SubscribedBefore => last.ret # errDuplicate
  /\ (last.op = "create" /\ Len(feeds) > Len(last.pre.feeds)) =>
       /\ Len(feeds) = Len(last.pre.feeds) + 1
       /\ feeds[Len(feeds)].feedURL = last.in.response.effectiveURL
       /\ feeds[Len(feeds)].userID = last.in.userID

\* A request for a URL that redirects to a feed URL the user has.
C9_Witness ==
  /\ ReachedDuplicateCheck /\ SubscribedBefore
  /\ last.in.url # last.in.response.effectiveURL
  /\ last.ret = errDuplicate

\* The handler got a response with a status below 400 (for a refresh: of
\* a feed it found; for a creation: into a category that exists).
GotResponse ==
  /\ \/ Refreshed
     \/ last.op = "create" /\ <<last.in.userID, last.in.categoryID>> \in Categories
  /\ Fetched

\* C10, as stated: such a response is the empty-feed error (no row
\* created; count incremented and written in a refresh) exactly when its
\* declared length is 0, and a response of length -1 is never that error.
C10_EmptyExactlyWhenZeroLength ==
  GotResponse
  => /\ last.ret = errEmptyFeed <=> last.in.response.contentLength = 0
     /\ (last.op = "refresh" /\ last.in.response.contentLength = 0) =>
          RowAfter.parsingErrorCount = RowBefore.parsingErrorCount + 1
     /\ last.in.response.contentLength = -1 => last.ret # errEmptyFeed

\* C10, amended: in CreateFeed a response is the empty-feed error (no row
\* created) exactly when its declared length is 0; in RefreshFeed exactly
\* when its declared length is 0 and it is a modified response (the count
\* is then incremented and written), a response that is not modified
\* taking the success path whatever its length.  A response of length -1
\* is never the empty-feed error: it goes on to the duplicate check in
\* CreateFeed and, unless a duplicate there or not modified in
\* RefreshFeed, to the normalization of the encoding.
C10_EmptyWhenModifiedAndZeroLength ==
  GotResponse
  => /\ last.op = "create" =>
          /\ last.ret = errEmptyFeed <=> last.in.response.contentLength = 0
          /\ last.ret = errEmptyFeed =>
               feeds = last.pre.feeds /\ entries = last.pre.entries
          /\ last.in.response.contentLength = -1 =>
               /\ Called("FeedURLExists")
               /\ SubscribedBefore \/ Called("NormalizeBodyEncoding")
     /\ last.op = "refresh" =>
          /\ last.ret = errEmptyFeed <=>
               (last.in.response.contentLength = 0 /\ Modified)
          /\ last.ret = errEmptyFeed =>
               /\ RowAfter.parsingErrorCount = RowBefore.parsingErrorCount + 1
               /\ RowAfter.parsingErrorMsg = Localize(errEmptyFeed, RefreshLanguage)
          /\ ~Modified => last.ret = NoError /\ RowAfter.parsingErrorCount = 0
          /\ (last.in.response.contentLength = -1 /\ Modified) =>
               Called("NormalizeBodyEncoding")

\* A refresh got a 304 of declared length 0 and cleared the errors of the
\* feed.
C10_Witness ==
  /\ Refreshed /\ Fetched /\ ~Modified
  /\ last.in.response.contentLength = 0
  /\ RowBefore.parsingErrorCount > 0
  /\ last.ret = NoError

---------------------------------------------------------------------------
(* Error handling of the modified path, crawl failures, the classes of     *)
(* fetch failures and the icon.                                            *)

\* C13: a modified refresh whose body cannot be normalized returns the
\* encoding error and calls no persistence: the feeds table (count,
\* message, checkedAt and validators of the feed among it), the entries
\* and the icons are as they were.
C13_EncodingFailurePersistsNothing ==
  (/\ Refreshed
   /\ Fetched /\ Modified
   /\ last.in.response.contentLength # 0
   /\ last.in.response.encErr)
  => /\ last.ret = errEncoding
     /\ feeds = last.pre.feeds
     /\ entries = last.pre.entries
     /\ icons = last.pre.icons
     /\ last.saved = <<>>
     /\ ~Called("UpdateFeed") /\ ~Called("UpdateEntries") /\ ~Called("CreateFeedIcon")

\* The body of a refresh of a feed in error, by a user whose language has
\* translations, cannot be normalized.
C13_Witness ==
  /\ Refreshed /\ Fetched /\ Modified
  /\ last.in.response.encErr
  /\ last.path = "encoding"
  /\ RowBefore.parsingErrorCount > 0
  /\ RowBefore.etag # last.in.response.etag

\* The crawl of entry i of the batch was tried and failed.
CrawlFailed(i) ==
  /\ ProcessCrawler
  /\ ~KnownBefore(ParsedEntry(i).url)
  /\ Fetch(last.in.pages[i], IF last.op = "create" THEN "" ELSE last.loaded.scraperRules,
           << >>, last.in.pages[i].visit).err

\* The row of the feed the invocation created or refreshed.
HandledRow == IF last.op = "create" THEN feeds[Len(feeds)] ELSE RowAfter

\* C15: an entry whose crawl fails keeps the content it had, rewritten
\* and then sanitized; the entries after it in the batch are still
\* crawled (when not known) and processed; and, nothing else failing, the
\* handler returns no error and leaves the error count of the feed at 0,
\* with no message.
C15_CrawlFailureIsolated ==
  Processed =>
    \A i \in DOMAIN last.processed :
      CrawlFailed(i) =>
        /\ CalledWith("scraper.Fetch", ParsedEntry(i).url)
        /\ last.processed[i].content =
             Sanitize(ParsedEntry(i).url,
                      Rewriter(ParsedEntry(i).url, ParsedEntry(i).content,
                               ProcessRewriteRules))
        /\ \A j \in DOMAIN last.processed :
             j > i =>
               /\ ~KnownBefore(ParsedEntry(j).url) =>
                    CalledWith("scraper.Fetch", ParsedEntry(j).url)
               /\ CalledWith("Rewriter", ParsedEntry(j).url)
               /\ CalledWith("Sanitize", ParsedEntry(j).url)
               /\ last.processed[j].content.op = "sanitize"
        /\ (last.in.failAt = -1 /\ last.path # "panic") =>
             /\ last.ret = NoError
             /\ HandledRow.parsingErrorCount = 0
             /\ HandledRow.parsingErrorMsg = ""

\* The crawl of the first entry of a refresh fails and the second entry
\* is crawled.
C15_Witness ==
  /\ Refreshed /\ Processed
  /\ Len(last.processed) >= 2
  /\ CrawlFailed(1)
  /\ ~KnownBefore(ParsedEntry(2).url)
  /\ ~last.in.pages[2].err
  /\ last.processed[2].content.of.of.op \in {"scrap", "readability"}
  /\ last.ret = NoError

\* The handler sent the request for the feed.
SentRequest ==
  \/ Refreshed
  \/ last.op = "create" /\ <<last.in.userID, last.in.categoryID>> \in Categories

\* C16: in CreateFeed and in RefreshFeed, a 404 is returned as the
\* resource-not-found error, another failure status as the server-failure
\* error, a failed request as the request error (the client's own
\* localized error, or the request-failed error around any other); the
\* three are different errors.
C16_FetchFailureClasses ==
  SentRequest
  => /\ TransportFailed => last.ret \in {errRequestFailed, errClient}
     /\ (StatusFailed /\ last.in.response.status = 404) =>
          last.ret = errResourceNotFound
     /\ (StatusFailed /\ last.in.response.status # 404) =>
          last.ret = ServerFailureMessage(last.in.response.status)
     /\ {errRequestFailed, errClient} \cap {errResourceNotFound} = {}
     /\ errResourceNotFound \notin {ServerFailureMessage(404), ServerFailureMessage(500)}

\* C20: RefreshFeed neither looks for nor creates an icon for a feed that
\* has one; when the finder returns an error or no icon, no icon is
\* created, CreateFeedIcon is not called and the handler does not fail
\* for it; an icon is created only for a feed without one, from an icon
\* the finder found.
C20_IconOnlyWhenFound ==
  last.op \in {"create", "refresh"}
  => /\ (Refreshed /\ HasIcon(last.pre.icons, last.in.feedID)) =>
          ~Called("FindIcon") /\ ~Called("CreateFeedIcon")
     /\ (Called("FindIcon") /\ last.in.icon \in {"none", "err"}) =>
          /\ icons = last.pre.icons
          /\ ~Called("CreateFeedIcon")
          /\ last.ret = NoError
     /\ icons # last.pre.icons =>
          /\ last.in.icon = "icon"
          /\ CalledWith("CreateFeedIcon", "icon")
          /\ \A id \in icons \ last.pre.icons :
               last.op = "refresh" => id = last.in.feedID

---------------------------------------------------------------------------
(* Properties of the processor and of the scraper, on the last call.       *)

\* The places of the calls of fn for url among the calls.
CallPlaces(calls, fn, url) == {k \in DOMAIN calls : calls[k] = Call(fn, url)}

\* C14: for every entry of the batch, whatever the crawler flag and the
\* outcome of the crawl, Process calls the rewriter once and then the
\* sanitizer once, nothing is done for the entry after the sanitizer, and
\* the content of the entry is the sanitized, rewritten content (of the
\* document or of the crawl).
C14_RewriteOnceThenSanitizeOnce ==
  call.fn = "Process" =>
    /\ Len(call.out.entries) = Len(call.ents)
    /\ \A i \in DOMAIN call.ents :
         LET url == call.ents[i].url
             rewrites == CallPlaces(call.out.calls, "Rewriter", url)
             sanitizes == CallPlaces(call.out.calls, "Sanitize", url)
             content == call.out.entries[i].content
         IN /\ Cardinality(rewrites) = 1
            /\ Cardinality(sanitizes) = 1
            /\ \A r \in rewrites, z \in sanitizes :
                 /\ r < z
                 /\ \A k \in DOMAIN call.out.calls : k > z => call.out.calls[k].url # url
            /\ content.op = "sanitize" /\ content.url = url
            /\ content.of.op = "rewrite" /\ content.of.url = url
            /\ content.of.rules = call.rewriteRules
            /\ content.of.of.op \in {"feed", "scrap", "readability"}

\* A batch with rewrite rules and the crawler on, in which the crawl of
\* the first entry fails and the crawl of the second succeeds.
C14_Witness ==
  /\ call.fn = "Process"
  /\ call.crawler /\ call.rewriteRules # ""
  /\ Len(call.ents) >= 2
  /\ call.known = {}
  /\ call.pages[1].err /\ ~call.pages[2].err
  /\ call.out.entries[1].content.of.of.op = "feed"
  /\ call.out.entries[2].content.of.of.op \in {"scrap", "readability"}

\* C17: two calls of getPredefinedScraperRules for the same host give the
\* same rules, also for a host that contains several domains of the
\* table.
C17_LookupDeterministic ==
  call.fn = "getPredefinedScraperRules" => call.first = call.second

\* The response passed the checks of Fetch that come before the content
\* type.
Downloaded == ~call.response.err /\ call.response.status < 400

\* The entries of the predefined rules whose domain is part of the host
\* of the effective URL.
MatchingRules ==
  {e \in predefinedRules : Contains(Domain(call.response.effectiveURL), e.domain)}

\* C18: Fetch rejects a response whose content type has no text/html
\* before it calls an extractor; otherwise, once the body is decoded, it
\* calls scrapContent with the explicit rules when there are some, else
\* with predefined rules of the host of the effective URL when there are
\* some, and only else the generic extractor, whose result it returns as
\* it is.
C18_FetchStrategyPriority ==
  call.fn = "Fetch" =>
    /\ (Downloaded /\ \A i \in DOMAIN call.response.contentType :
                         call.response.contentType[i] # "text/html") =>
         call.out.err /\ call.out.used = "none"
    /\ (Downloaded /\ (\E i \in DOMAIN call.response.contentType :
                         call.response.contentType[i] = "text/html")
                   /\ ~call.response.encErr) =>
         /\ call.rules # "" =>
              call.out.used = "scrapContent" /\ call.out.rules = call.rules
         /\ (call.rules = "" /\ MatchingRules # {}) =>
              /\ call.out.used = "scrapContent"
              /\ call.out.rules \in {e.rules : e \in MatchingRules}
         /\ (call.rules = "" /\ MatchingRules = {}) =>
              /\ call.out.used = "ExtractContent"
              /\ call.out.err = ExtractContent(call.response.body).err
              /\ ~call.out.err =>
                   call.out.content = ExtractContent(call.response.body).content

\* A page without rules of its own redirects to a host that has
\* predefined rules, which are used.
C18_Witness ==
  /\ call.fn = "Fetch"
  /\ call.rules = ""
  /\ call.websiteURL = "a" /\ call.response.effectiveURL = "c"
  /\ ~call.out.err
  /\ call.out.used = "scrapContent" /\ call.out.rules = "article"

\* What the k-th matched node gives: the HTML inside it, or inside its
\* parent for an img or an iframe.
Fragment(dom, n) ==
  IF dom[n].tag \in {"img", "iframe"} THEN Html(dom, dom[n].parent) ELSE Html(dom, n)

\* The length of the fragments of the matched nodes before the k-th.
RECURSIVE OffsetOf(_, _, _)
OffsetOf(dom, selection, k) ==
  IF k = 1 THEN 0
  ELSE OffsetOf(dom, selection, k - 1) + Len(Fragment(dom, selection[k - 1]))

\* C19: the HTML scrapContent returns is made of one fragment for each
\* matched node, in document order and with nothing in between: the HTML
\* inside the node, or inside its parent for an img or an iframe (once for
\* each such node, also when they have the same parent); it is empty when
\* no node matches.
C19_ScrapConcatenatesFragments ==
  (call.fn = "scrapContent" /\ ~call.page.broken) =>
    LET dom == Dom(call.page)
        selection == Find(dom, call.rules, 1)
        html == call.out.content.html
    IN /\ ~call.out.err
       /\ Len(html) = OffsetOf(dom, selection, Len(selection) + 1)
       /\ \A k \in DOMAIN selection :
            SubSeq(html, OffsetOf(dom, selection, k) + 1,
                   OffsetOf(dom, selection, k + 1)) = Fragment(dom, selection[k])
       /\ selection = <<>> => html = <<>>

\* The rules match two images that have the same parent, and the HTML
\* inside the parent is given twice.
C19_Witness ==
  /\ call.fn = "scrapContent" /\ ~call.page.broken
  /\ call.rules = "img, iframe"
  /\ LET dom == Dom(call.page)
         selection == Find(dom, call.rules, 1)
     IN /\ Len(selection) = 2
        /\ dom[selection[1]].parent = dom[selection[2]].parent
        /\ call.out.content.html =
             Html(dom, dom[selection[1]].parent) \o Html(dom, dom[selection[1]].parent)
        /\ Len(call.out.content.html) > 2

---------------------------------------------------------------------------
(* Invariants of the feeds table, with the handlers running side by side.  *)

\* C11: no two feeds of a user have the same feed URL.
C11_FeedURLUniquePerUser ==
  \A i, j \in DOMAIN feeds :
    (i # j /\ feeds[i].userID = feeds[j].userID) => feeds[i].feedURL # feeds[j].feedURL

\* C12: the error count of a feed is 0 exactly when its error message is
\* empty.
C12_CountAndMessageTogether ==
  \A i \in DOMAIN feeds :
    feeds[i].parsingErrorCount = 0 <=> feeds[i].parsingErrorMsg = ""

\* A refresh has written its failure to a feed that another handler had
\* written since the refresh loaded it.
C12_Witness ==
  /\ last.op = "refresh" /\ last.stale
  /\ last.path \in WrittenFailures
  /\ feeds[last.feedID].parsingErrorCount > 0
  /\ feeds[last.feedID].parsingErrorMsg # ""

---------------------------------------------------------------------------
(* Cookie maps at the boundaries.                                          *)

\* C21: after WithCookies, and after Merge, the cookies the processor or
\* the feed holds are those of the map at the time of the call, whatever
\* the caller does to its map afterwards.
C21_CookiesCopiedAtBoundaries ==
  (call.fn \in {"WithCookies", "Merge"} /\ call.mutated) =>
    call.heap[call.held] = call.atCall

\* C21, for WithCookies alone.
C21_WithCookiesCopies ==
  (call.fn = "WithCookies" /\ call.mutated) =>
    /\ call.held # call.caller
    /\ call.heap[call.held] = call.atCall

---------------------------------------------------------------------------
(* The fields a refresh writes.                                            *)

\* The validators of a row.
Tokens(row) == <<row.etag, row.lastModified>>

\* Every entry of the document of the refresh is stored for the feed.
DocumentStored ==
  \A i \in DOMAIN last.in.response.doc.entries :
    \E e \in entries :
      /\ e.userID = last.in.userID
      /\ e.feedID = last.in.feedID
      /\ e.url = ParsedEntry(i).url

\* C22: a refresh changes the stored validators only when its response
\* is a modified one and the merge of its entries succeeded, and then to
\* the validators of the response, with the entries of the document
\* stored; a refresh that fails (no response, 404, failure status, empty
\* body, encoding, parsing, merge) or is not modified leaves them as they
\* were.
C22_TokensChangeOnlyWithEntries ==
  Refreshed
  => /\ Tokens(RowAfter) # Tokens(RowBefore) =>
          /\ Fetched /\ Modified
          /\ last.path = "modified"
          /\ Called("UpdateEntries") /\ last.ret = NoError
          /\ DocumentStored
     /\ last.path = "modified" =>
          Tokens(RowAfter) = <<last.in.response.etag, last.in.response.lastModified>>
     /\ last.path \in {"transport", "notfound", "serverfailure", "empty", "encoding",
                       "parse", "merge", "unmodified"} =>
          Tokens(RowAfter) = Tokens(RowBefore)
     /\ (last.ret # NoError \/ ~Modified) => Tokens(RowAfter) = Tokens(RowBefore)

\* The merge of a modified document with new validators fails, and the
\* stored validators stay.
C22_Witness ==
  /\ Refreshed /\ Fetched /\ Modified
  /\ last.path = "merge"
  /\ RowBefore.etag # last.in.response.etag
  /\ RowBefore.lastModified # last.in.response.lastModified
  /\ Tokens(RowAfter) = Tokens(RowBefore)

---------------------------------------------------------------------------
(* A refresh and what the user has set.                                    *)

\* C23: when a refresh ends, the title, feed URL, category, scraper rules,
\* rewrite rules, cookies, crawler flag, user name and password stored for
\* its feed are those stored just before it wrote, hence the latest an edit
\* saved, also when the edit was saved after the refresh had loaded the
\* feed.
C23_RefreshKeepsUserConfiguration ==
  last.op = "refresh" =>
    Config(feeds[last.feedID]) = last.before[last.feedID]

====
